---- MODULE Spec2Model ----
(***************************************************************************)
(* State-machine model of telegram-bot-docker/main.py: the per-user        *)
(* conversation store, the per-user model choice and the five handlers     *)
(* (start, clear, switch, process_text, process_photo).                    *)
(*                                                                         *)
(* Every handler is a coroutine.  An action of this model is the code a     *)
(* handler runs between two suspension points (await): the event loop       *)
(* runs it without interruption.  Several handlers may be suspended at      *)
(* the same time; a synchronous call made from a handler holds the event    *)
(* loop thread (variable blocked) until it returns.                         *)
(*                                                                         *)
(* Texts are sequences of one-character strings, so that str.strip() is     *)
(* computed and not assumed.                                                *)
(***************************************************************************)
EXTENDS Integers, Sequences, FiniteSets, TLC

\* ---------------------------------------------------------------- bounds
\* Number of inbound events (handler invocations) of one behaviour.
MaxFlows == 2

\* main.py:82 sets MAX_HISTORY = 50.  The model keeps the definition and
\* every use of it, with a small value so that the window fills and slides
\* within MaxFlows events.
MAX_HISTORY == 2

Flows == 1..MaxFlows

Users == {"u1", "u2"}
\* update.message.chat.type, for the handlers that read it (switch,
\* process_photo); the other handlers' records keep "any".
ChatTypes == {"private", "group"}

\* Message texts / captions a user may send, and texts the backend may return.
Texts == { <<" ", "a">>, <<"b">> }
Responses == { <<"r", " ">> }
\* Captions of a photo message (<<>> would stand for no caption).
Captions == { <<" ", "c">> }

\* ------------------------------------------------------ predefined messages
GENERATING_RESPONSE == <<"Generating">>
ERROR_INFO == <<"Something went wrong">>
IMAGE_RECEIVED == <<"Image received">>
WELCOME == <<"Welcome">>
HISTORY_CLEARED == <<"Your history has been cleared">>
PRIVATE_ONLY == <<"This command is only for private chat!">>
NOW_FLASH == <<"Now you are using gemini-1.5-flash">>
NOW_PRO == <<"Now you are using gemini-1.5-pro">>

\* The two model instances.
gemini_flash_model == "flash"
gemini_pro_model == "pro"

\* ------------------------------------------------------------ pure helpers
RECURSIVE LStrip(_)
LStrip(s) == IF s # <<>> /\ Head(s) = " " THEN LStrip(Tail(s)) ELSE s

RECURSIVE RStrip(_)
RStrip(s) ==
  IF s # <<>> /\ s[Len(s)] = " " THEN RStrip(SubSeq(s, 1, Len(s) - 1)) ELSE s

\* str.strip()
Strip(s) == RStrip(LStrip(s))

\* A window that keeps the oldest n elements instead of the newest.
FirstN(s, n) == IF Len(s) <= n THEN s ELSE SubSeq(s, 1, n)

\* history[-MAX_HISTORY:] : a new list holding the last n elements.
LastN(s, n) == IF Len(s) <= n THEN s ELSE SubSeq(s, Len(s) - n + 1, Len(s))

UserTurn(t) == [role |-> "user", parts |-> << Strip(t) >>]

\* A model turn that keeps the generated text untrimmed.
ModelTurnRaw(r) == [role |-> "model", parts |-> << r >>]

ModelTurn(r) == [role |-> "model", parts |-> << Strip(r) >>]

\* Calls made to the transport that create or change a chat message.
Reply(t) == [op |-> "reply", text |-> t]
Edit(t) == [op |-> "edit", text |-> t]

\* An entry of the history variable log.
Logged(f, turn) == [by |-> f, turn |-> turn]

\* ------------------------------------------------------------------- state
VARIABLES
  conversations,       \* user -> list of turns (defaultdict, default [])
  convKeys,            \* keys present in conversations
  default_model_dict,  \* user -> model instance (defaultdict, default pro)
  modelKeys,           \* keys present in default_model_dict
  flow,                \* handler invocation -> its locals and position
  blocked,             \* the flows (at most one) whose synchronous call
                       \* holds the event loop thread
  log,                 \* history variable: user -> the turns put into the
                       \* user's list since the user's last clear, each with
                       \* the flow that put it there
  boot                 \* startup: the process environment, the secret files,
                       \* the secrets resolved so far and the position

vars == <<conversations, convKeys, default_model_dict, modelKeys, flow, blocked, log, boot>>

\* A generation request: the model instance called, the history the chat
\* session was started with, the message or prompt text, and whether image
\* bytes go with it.
Request(m, h, msg, img) == [model |-> m, history |-> h, message |-> msg, image |-> img]
NoRequest == Request("none", <<>>, <<>>, FALSE)

IdleFlow ==
  [ kind |-> "none", user |-> "none", chat |-> "none", text |-> <<>>,
    pc |-> "idle",
    history |-> <<>>,      \* local variable history of process_text
    model |-> "none",      \* local variable model / the model switch selected
    request |-> NoRequest, \* what the handler handed to the backend
    response |-> <<>>,     \* response.text
    sent |-> <<>>,         \* reply/edit calls made by the handler, in order
    backend |-> "none",    \* none | pending | ok | failed
    appended |-> <<>>,     \* turns this handler put into the stored history
    result |-> "none" ]    \* none | REPLIED | FAILED | DONE | ESCAPED

\* ----------------------------------------------------------------- startup
SecretNames == {"GEMINI_API_KEY", "TELEGRAM_BOT_TOKEN"}

\* An optional string: None, or a value.
None == [some |-> FALSE, val |-> <<>>]
Some(v) == [some |-> TRUE, val |-> v]

\* os.getenv(name): unset, set, or set to the empty string.
EnvValues == { None, Some(<<"e">>), Some(<<>>) }
\* /run/secrets/<name>: no such file, or the file's content.
FileValues == { None, Some(<<"f", " ">>), Some(<<" ">>) }

\* get_docker_secret, lines 26-31: the stripped content, or None when the
\* file does not exist.
get_docker_secret(file) == IF file.some THEN Some(Strip(file.val)) ELSE None

\* A get_secret that lets the secret file take precedence over the environment.
get_secret_file_first(env, file) ==
  IF get_docker_secret(file) # None THEN get_docker_secret(file) ELSE env

\* get_secret, lines 34-41: the environment's value if there is one, else the
\* secret file's; None stands for the ValueError of line 40.
get_secret(env, file) == IF env # None THEN env ELSE get_docker_secret(file)

\* The startup state of a process whose environment holds both secrets and
\* that has reached run_polling (line 242).
Booted ==
  [ pc |-> "polling",
    environ |-> [n \in SecretNames |-> Some(<<"e">>)],
    files |-> [n \in SecretNames |-> None],
    gemini_api_key |-> Some(<<"e">>),
    token |-> Some(<<"e">>),
    error |-> "none" ]

\* Lines 44-45, run when the module is loaded: the backend key is resolved
\* and the backend configured, or the ValueError ends the process.
LoadModule ==
  /\ boot.pc = "import"
  /\ LET v == get_secret(boot.environ["GEMINI_API_KEY"], boot.files["GEMINI_API_KEY"]) IN
     boot' = IF v = None
       THEN [boot EXCEPT !.pc = "aborted", !.error = "GEMINI_API_KEY"]
       ELSE [boot EXCEPT !.pc = "loaded", !.gemini_api_key = v]
  /\ UNCHANGED <<conversations, convKeys, default_model_dict, modelKeys, flow, blocked, log>>

\* main, lines 223-242: the bot token is resolved, the application built, the
\* handlers registered and polling started; or the ValueError ends the process.
Main ==
  /\ boot.pc = "loaded"
  /\ LET v == get_secret(boot.environ["TELEGRAM_BOT_TOKEN"], boot.files["TELEGRAM_BOT_TOKEN"]) IN
     boot' = IF v = None
       THEN [boot EXCEPT !.pc = "aborted", !.error = "TELEGRAM_BOT_TOKEN"]
       ELSE [boot EXCEPT !.pc = "polling", !.token = v]
  /\ UNCHANGED <<conversations, convKeys, default_model_dict, modelKeys, flow, blocked, log>>

Init ==
  /\ boot = Booted
  /\ conversations = [u \in Users |-> <<>>]
  /\ convKeys = {}
  /\ default_model_dict = [u \in Users |-> gemini_pro_model]
  /\ modelKeys = {}
  /\ flow = [f \in Flows |-> IdleFlow]
  /\ blocked = {}
  /\ log = [u \in Users |-> <<>>]

\* The event loop can run code of flow f: no other flow holds the thread.
LoopFree(f) == blocked \subseteq {f}

\* Users are interchangeable: the first event is taken to come from u1.
Senders(f) == IF f = 1 THEN {"u1"} ELSE Users

\* The dispatcher hands the next inbound event to a handler: the events are
\* numbered in the order in which their handlers are started.
CanBegin(f) ==
  /\ boot.pc = "polling"
  /\ flow[f].pc = "idle"
  /\ LoopFree(f)
  /\ UNCHANGED boot
  /\ IF f = 1 THEN TRUE ELSE flow[f - 1].pc # "idle"

Began(k, u, c, t) ==
  [IdleFlow EXCEPT !.kind = k, !.user = u, !.chat = c, !.text = t]

\* ---------------------------------------------------------------- commands
\* start: lines 108-111, up to the await of reply_text.
Start(f, u) ==
  /\ CanBegin(f)
  /\ UNCHANGED boot
  /\ flow' = [flow EXCEPT ![f] =
       [Began("start", u, "any", <<>>) EXCEPT
          !.pc = "c_reply", !.sent = << Reply(WELCOME) >>]]
  /\ UNCHANGED <<conversations, convKeys, default_model_dict, modelKeys, blocked, log>>

\* A clear that drops only the newest turn of the sender's list.
ClearNewest(f, u) ==
  /\ CanBegin(f)
  /\ UNCHANGED boot
  /\ conversations' = [conversations EXCEPT ![u] =
       IF @ = <<>> THEN @ ELSE SubSeq(@, 1, Len(@) - 1)]
  /\ convKeys' = convKeys \cup {u}
  /\ log' = [log EXCEPT ![u] = <<>>]
  /\ flow' = [flow EXCEPT ![f] =
       [Began("clear", u, "any", <<>>) EXCEPT
          !.pc = "c_reply", !.sent = << Reply(HISTORY_CLEARED) >>]]
  /\ UNCHANGED <<default_model_dict, modelKeys, blocked>>

\* A clear that empties every user's list, not only the sender's.
ClearAll(f, u) ==
  /\ CanBegin(f)
  /\ UNCHANGED boot
  /\ conversations' = [v \in Users |-> <<>>]
  /\ convKeys' = convKeys \cup {u}
  /\ log' = [v \in Users |-> <<>>]
  /\ flow' = [flow EXCEPT ![f] =
       [Began("clear", u, "any", <<>>) EXCEPT
          !.pc = "c_reply", !.sent = << Reply(HISTORY_CLEARED) >>]]
  /\ UNCHANGED <<default_model_dict, modelKeys, blocked>>

\* clear: lines 114-117, up to the await of reply_text.
Clear(f, u) ==
  /\ CanBegin(f)
  /\ UNCHANGED boot
  /\ conversations' = [conversations EXCEPT ![u] = <<>>]
  /\ convKeys' = convKeys \cup {u}
  /\ log' = [log EXCEPT ![u] = <<>>]
  /\ flow' = [flow EXCEPT ![f] =
       [Began("clear", u, "any", <<>>) EXCEPT
          !.pc = "c_reply", !.sent = << Reply(HISTORY_CLEARED) >>]]
  /\ UNCHANGED <<default_model_dict, modelKeys, blocked>>

\* A switch that always selects the flash model.
ToggleStuck(cur) == gemini_flash_model

\* The model instance switch stores when the current one is cur (lines 127-131).
Toggle(cur) ==
  IF cur = gemini_pro_model THEN gemini_flash_model ELSE gemini_pro_model

\* The confirmation switch sends for the instance it stored (lines 129, 132).
Confirmation(m) == IF m = gemini_flash_model THEN NOW_FLASH ELSE NOW_PRO

\* A switch that is accepted in every chat.
RejectedContextNever(c) == FALSE

\* Line 122: switch is refused outside a private chat.
RejectedContext(c) == c # "private"

\* switch: lines 120-132, up to the await of reply_text.
Switch(f, u, c) ==
  /\ CanBegin(f)
  /\ UNCHANGED boot
  /\ IF RejectedContext(c)
       THEN /\ flow' = [flow EXCEPT ![f] =
                 [Began("switch", u, c, <<>>) EXCEPT
                    !.pc = "c_reply", !.sent = << Reply(PRIVATE_ONLY) >>]]
            /\ UNCHANGED <<default_model_dict, modelKeys>>
       ELSE LET new == Toggle(default_model_dict[u]) IN
            /\ default_model_dict' = [default_model_dict EXCEPT ![u] = new]
            /\ modelKeys' = modelKeys \cup {u}
            /\ flow' = [flow EXCEPT ![f] =
                 [Began("switch", u, c, <<>>) EXCEPT
                    !.pc = "c_reply", !.model = new,
                    !.sent = << Reply(Confirmation(new)) >>]]
  /\ UNCHANGED <<conversations, convKeys, blocked, log>>

\* The reply_text awaited by start, clear or switch returns or raises; the
\* three handlers have no try block.
CommandReplyReturn(f, ok) ==
  /\ flow[f].pc = "c_reply"
  /\ LoopFree(f)
  /\ UNCHANGED boot
  /\ flow' = [flow EXCEPT ![f].pc = "done",
                          ![f].result = IF ok THEN "DONE" ELSE "ESCAPED"]
  /\ UNCHANGED <<conversations, convKeys, default_model_dict, modelKeys, blocked, log>>

\* ------------------------------------------------------------ process_text
\* process_text, lines 135-139, for a message of chat type c: the placeholder
\* is sent before the try block.  The handler never reads the chat type.
ProcessTextIn(f, u, c, t) ==
  /\ CanBegin(f)
  /\ UNCHANGED boot
  /\ flow' = [flow EXCEPT ![f] =
       [Began("text", u, c, t) EXCEPT
          !.pc = "t_placeholder", !.sent = << Reply(GENERATING_RESPONSE) >>]]
  /\ UNCHANGED <<conversations, convKeys, default_model_dict, modelKeys, blocked, log>>

\* A process_text that records the USER turn before it sends the placeholder.
ProcessTextAppendFirst(f, u, t) ==
  /\ CanBegin(f)
  /\ UNCHANGED boot
  /\ conversations' = [conversations EXCEPT ![u] = Append(@, UserTurn(t))]
  /\ convKeys' = convKeys \cup {u}
  /\ log' = [log EXCEPT ![u] = Append(@, Logged(f, UserTurn(t)))]
  /\ flow' = [flow EXCEPT ![f] =
       [Began("text", u, "any", t) EXCEPT
          !.pc = "t_placeholder", !.appended = << UserTurn(t) >>,
          !.sent = << Reply(GENERATING_RESPONSE) >>]]
  /\ UNCHANGED <<default_model_dict, modelKeys, blocked>>

\* process_text, lines 135-139, the chat type left open.
ProcessText(f, u, t) == ProcessTextIn(f, u, "any", t)

\* A model choice for text that follows the chat type in group chats, as the
\* photo handler's does.
TextModelByChat(d, u, c) == IF c = "group" THEN gemini_flash_model ELSE d[u]

\* Line 144: the model of a text flow is the sender's entry of
\* default_model_dict d, whatever the chat type c.
TextModel(d, u, c) == d[u]

\* Lines 154-156: the chat session is started with history and the message is
\* then sent in it, so the backend receives the history followed by the
\* message as a further user turn.
Delivered(req) == Append(req.history, [role |-> "user", parts |-> << req.message >>])

\* A backend call handed to a worker: the event loop thread stays free.
SendMessageOffloaded(f) == {}

\* Line 156: chat_session.send_message is called from the coroutine itself,
\* so the event loop thread is held by flow f until the call returns.
SendMessageSync(f) == {f}

\* The list process_text leaves in conversations[user_id] when the backend
\* call succeeded (lines 157-160): the truncated copy plus the model turn.
StoredOnSuccess(history, r) == Append(history, ModelTurn(r))

\* An except block that reports the error by editing the placeholder.
TextExceptEditing(fl) ==
  [fl EXCEPT !.pc = "err_notice", !.sent = Append(@, Edit(ERROR_INFO))]

\* Lines 164-166: what a text flow becomes when a call inside its try raises:
\* the error notice is sent as a reply to the user's message.
TextExcept(fl) ==
  [fl EXCEPT !.pc = "err_notice", !.sent = Append(@, Reply(ERROR_INFO))]

\* The await of line 139 returns, then lines 143-156 up to the backend call;
\* or it raises, outside the try block.
TextPlaceholderReturn(f, ok) ==
  /\ flow[f].pc = "t_placeholder"
  /\ LoopFree(f)
  /\ UNCHANGED boot
  /\ IF ~ok
       THEN /\ flow' = [flow EXCEPT ![f].pc = "done", ![f].result = "ESCAPED"]
            /\ UNCHANGED <<conversations, convKeys, default_model_dict, modelKeys, blocked, log>>
       ELSE LET u == flow[f].user
                turn == UserTurn(flow[f].text)
                stored == Append(conversations[u], turn)   \* in-place append
                history == LastN(stored, MAX_HISTORY)      \* a truncated copy
                model == TextModel(default_model_dict, u, flow[f].chat)
            IN
            /\ conversations' = [conversations EXCEPT ![u] = stored]
            /\ convKeys' = convKeys \cup {u}
            /\ modelKeys' = modelKeys \cup {u}
            /\ log' = [log EXCEPT ![u] = Append(@, Logged(f, turn))]
            /\ flow' = [flow EXCEPT
                 ![f].pc = "t_generating",
                 ![f].history = history,
                 ![f].model = model,
                 ![f].request = Request(model, history, flow[f].text, FALSE),
                 ![f].backend = "pending",
                 ![f].appended = << turn >>]
            /\ blocked' = SendMessageSync(f)
            /\ UNCHANGED default_model_dict

\* The backend call of line 156 returns text r, or raises (ok = FALSE);
\* then lines 157-162 up to the await of edit_text, or lines 164-166 up to
\* the await of reply_text.
TextBackendReturn(f, ok, r) ==
  /\ flow[f].pc = "t_generating"
  /\ LoopFree(f)
  /\ UNCHANGED boot
  /\ blocked' = {}
  /\ IF ok
       THEN LET u == flow[f].user
                history == StoredOnSuccess(flow[f].history, r)
            IN
            /\ conversations' = [conversations EXCEPT ![u] = history]
            /\ log' = [log EXCEPT ![u] = Append(@, Logged(f, ModelTurn(r)))]
            /\ flow' = [flow EXCEPT
                 ![f].pc = "t_edit",
                 ![f].history = history,
                 ![f].response = r,
                 ![f].backend = "ok",
                 ![f].appended = Append(@, ModelTurn(r)),
                 ![f].sent = Append(@, Edit(r))]
       ELSE /\ flow' = [flow EXCEPT ![f] = TextExcept([@ EXCEPT !.backend = "failed"])]
            /\ UNCHANGED <<conversations, log>>
  /\ UNCHANGED <<convKeys, default_model_dict, modelKeys>>

\* The await of line 162 returns (the handler ends) or raises (lines 164-166).
TextEditReturn(f, ok) ==
  /\ flow[f].pc = "t_edit"
  /\ LoopFree(f)
  /\ UNCHANGED boot
  /\ flow' = [flow EXCEPT ![f] =
       IF ok THEN [@ EXCEPT !.pc = "done", !.result = "REPLIED"]
             ELSE TextExcept(@)]
  /\ UNCHANGED <<conversations, convKeys, default_model_dict, modelKeys, blocked, log>>

\* The reply_text of an except block (line 166 or 219) returns or raises;
\* it is not itself guarded.
ErrorNoticeReturn(f, ok) ==
  /\ flow[f].pc = "err_notice"
  /\ LoopFree(f)
  /\ UNCHANGED boot
  /\ flow' = [flow EXCEPT ![f].pc = "done",
                          ![f].result = IF ok THEN "FAILED" ELSE "ESCAPED"]
  /\ UNCHANGED <<conversations, convKeys, default_model_dict, modelKeys, blocked, log>>

\* ----------------------------------------------------------- process_photo
\* A photo model that is the pro model in every chat.
PhotoModelAlwaysPro(c) == gemini_pro_model

\* Lines 174-178: the model of a photo depends on the chat type only.
PhotoModel(c) == IF c # "private" THEN gemini_flash_model ELSE gemini_pro_model

\* Lines 196-207: the prompt text that goes with the image bytes.
PhotoPrompt(caption) ==
  <<"Image caption:\n">> \o (IF caption # <<>> THEN Strip(caption) ELSE <<>>) \o <<"\n">>

\* An except block that reports the error by editing the acknowledgment.
PhotoExceptEditing(fl) ==
  [fl EXCEPT !.pc = "err_notice", !.sent = Append(@, Edit(ERROR_INFO))]

\* Lines 217-219: what a photo flow becomes when a call inside its try raises.
PhotoExcept(fl) ==
  [fl EXCEPT !.pc = "err_notice", !.sent = Append(@, Reply(ERROR_INFO))]

\* process_photo, lines 169-184, up to the await of the acknowledgment.
ProcessPhoto(f, u, c, t) ==
  /\ CanBegin(f)
  /\ UNCHANGED boot
  /\ flow' = [flow EXCEPT ![f] =
       [Began("photo", u, c, t) EXCEPT
          !.pc = "p_ack", !.model = PhotoModel(c),
          !.sent = << Reply(IMAGE_RECEIVED) >>]]
  /\ UNCHANGED <<conversations, convKeys, default_model_dict, modelKeys, blocked, log>>

\* The await of line 184 returns, then line 187 (get_file) is awaited.
PhotoAckReturn(f, ok) ==
  /\ flow[f].pc = "p_ack"
  /\ LoopFree(f)
  /\ UNCHANGED boot
  /\ flow' = [flow EXCEPT ![f] =
       IF ok THEN [@ EXCEPT !.pc = "p_get_file"] ELSE PhotoExcept(@)]
  /\ UNCHANGED <<conversations, convKeys, default_model_dict, modelKeys, blocked, log>>

\* The await of line 187 returns, then line 190 (download) is awaited.
PhotoGetFileReturn(f, ok) ==
  /\ flow[f].pc = "p_get_file"
  /\ LoopFree(f)
  /\ UNCHANGED boot
  /\ flow' = [flow EXCEPT ![f] =
       IF ok THEN [@ EXCEPT !.pc = "p_download"] ELSE PhotoExcept(@)]
  /\ UNCHANGED <<conversations, convKeys, default_model_dict, modelKeys, blocked, log>>

\* The await of line 190 returns, then lines 193-211: the contents are built
\* and the acknowledgment is edited to the "generating" notice.
PhotoDownloadReturn(f, ok) ==
  /\ flow[f].pc = "p_download"
  /\ LoopFree(f)
  /\ UNCHANGED boot
  /\ flow' = [flow EXCEPT ![f] =
       IF ok
         THEN [@ EXCEPT !.pc = "p_edit_generating",
                        !.request = Request(flow[f].model, <<>>, PhotoPrompt(flow[f].text), TRUE),
                        !.sent = Append(@, Edit(GENERATING_RESPONSE))]
         ELSE PhotoExcept(@)]
  /\ UNCHANGED <<conversations, convKeys, default_model_dict, modelKeys, blocked, log>>

\* The await of line 209 returns, then line 212: async_generate_content
\* (lines 97-104) hands the backend call to the executor and awaits it.
PhotoEditGeneratingReturn(f, ok) ==
  /\ flow[f].pc = "p_edit_generating"
  /\ LoopFree(f)
  /\ UNCHANGED boot
  /\ flow' = [flow EXCEPT ![f] =
       IF ok THEN [@ EXCEPT !.pc = "p_generating", !.backend = "pending"]
             ELSE PhotoExcept(@)]
  /\ UNCHANGED <<conversations, convKeys, default_model_dict, modelKeys, blocked, log>>

\* A photo flow that threads its exchange through the sender's history.
PhotoBackendReturnThreaded(f, ok, r) ==
  /\ flow[f].pc = "p_generating"
  /\ LoopFree(f)
  /\ UNCHANGED boot
  /\ flow' = [flow EXCEPT ![f] =
       IF ok
         THEN [@ EXCEPT !.pc = "p_edit", !.backend = "ok", !.response = r,
                        !.sent = Append(@, Edit(r))]
         ELSE PhotoExcept([@ EXCEPT !.backend = "failed"])]
  /\ conversations' = [conversations EXCEPT ![flow[f].user] =
       IF ok THEN Append(@, ModelTurn(r)) ELSE @]
  /\ log' = [log EXCEPT ![flow[f].user] =
       IF ok THEN Append(@, Logged(f, ModelTurn(r))) ELSE @]
  /\ UNCHANGED <<convKeys, default_model_dict, modelKeys, blocked>>

\* The executor's call returns text r or raises; then lines 213-215.
PhotoBackendReturn(f, ok, r) ==
  /\ flow[f].pc = "p_generating"
  /\ LoopFree(f)
  /\ UNCHANGED boot
  /\ flow' = [flow EXCEPT ![f] =
       IF ok
         THEN [@ EXCEPT !.pc = "p_edit", !.backend = "ok", !.response = r,
                        !.sent = Append(@, Edit(r))]
         ELSE PhotoExcept([@ EXCEPT !.backend = "failed"])]
  /\ UNCHANGED <<conversations, convKeys, default_model_dict, modelKeys, blocked, log>>

\* The await of line 213 returns (the handler ends) or raises.
PhotoEditReturn(f, ok) ==
  /\ flow[f].pc = "p_edit"
  /\ LoopFree(f)
  /\ UNCHANGED boot
  /\ flow' = [flow EXCEPT ![f] =
       IF ok THEN [@ EXCEPT !.pc = "done", !.result = "REPLIED"]
             ELSE PhotoExcept(@)]
  /\ UNCHANGED <<conversations, convKeys, default_model_dict, modelKeys, blocked, log>>

\* ------------------------------------------------------------ specification
Next ==
  \E f \in Flows :
    \/ \E u \in Senders(f) : Start(f, u)
    \/ \E u \in Senders(f) : Clear(f, u)
    \/ \E u \in Senders(f), c \in ChatTypes : Switch(f, u, c)
    \/ \E u \in Senders(f), t \in Texts : ProcessText(f, u, t)
    \/ \E u \in Senders(f), c \in ChatTypes, t \in Captions : ProcessPhoto(f, u, c, t)
    \/ \E ok \in BOOLEAN : CommandReplyReturn(f, ok)
    \/ \E ok \in BOOLEAN : TextPlaceholderReturn(f, ok)
    \/ \E ok \in BOOLEAN, r \in Responses : TextBackendReturn(f, ok, r)
    \/ \E ok \in BOOLEAN : TextEditReturn(f, ok)
    \/ \E ok \in BOOLEAN : ErrorNoticeReturn(f, ok)
    \/ \E ok \in BOOLEAN : PhotoAckReturn(f, ok)
    \/ \E ok \in BOOLEAN : PhotoGetFileReturn(f, ok)
    \/ \E ok \in BOOLEAN : PhotoDownloadReturn(f, ok)
    \/ \E ok \in BOOLEAN : PhotoEditGeneratingReturn(f, ok)
    \/ \E ok \in BOOLEAN, r \in Responses : PhotoBackendReturn(f, ok, r)
    \/ \E ok \in BOOLEAN : PhotoEditReturn(f, ok)

Spec == Init /\ [][Next]_vars

\* Startup on its own: any environment and any secret files, from the loading
\* of the module to run_polling or to the abort.
BootInit ==
  /\ boot \in { [ pc |-> "import", environ |-> e, files |-> s,
                  gemini_api_key |-> None, token |-> None, error |-> "none" ] :
                e \in [SecretNames -> EnvValues], s \in [SecretNames -> FileValues] }
  /\ conversations = [u \in Users |-> <<>>]
  /\ convKeys = {}
  /\ default_model_dict = [u \in Users |-> gemini_pro_model]
  /\ modelKeys = {}
  /\ flow = [f \in Flows |-> IdleFlow]
  /\ blocked = {}
  /\ log = [u \in Users |-> <<>>]

\* The bot restricted to /switch commands and text messages, the text
\* messages coming from private and from group chats.
SwitchTextNext ==
  \E f \in Flows :
    \/ \E u \in Senders(f), c \in ChatTypes : Switch(f, u, c)
    \/ \E u \in Senders(f), c \in ChatTypes, t \in Texts : ProcessTextIn(f, u, c, t)
    \/ \E ok \in BOOLEAN : CommandReplyReturn(f, ok)
    \/ \E ok \in BOOLEAN : TextPlaceholderReturn(f, ok)
    \/ \E ok \in BOOLEAN, r \in Responses : TextBackendReturn(f, ok, r)
    \/ \E ok \in BOOLEAN : TextEditReturn(f, ok)
    \/ \E ok \in BOOLEAN : ErrorNoticeReturn(f, ok)

SwitchTextSpec == Init /\ [][SwitchTextNext]_vars

BootNext == LoadModule \/ Main

BootSpec == BootInit /\ [][BootNext]_vars

\* ================================================================== claims
IsSuffix(s, t) ==
  /\ Len(s) <= Len(t)
  /\ \A i \in 1..Len(s) : s[i] = t[Len(t) - Len(s) + i]

\* The turns of a log, without the flows that wrote them.
Turns(l) == [i \in 1..Len(l) |-> l[i].turn]

\* The last change of user u's list was made by flow f (and not by a clear
\* or by another flow).
WroteLast(f, u) == log[u] # <<>> /\ log[u][Len(log[u])].by = f

TextFlows == {f \in Flows : flow[f].kind = "text"}

\* C1 -- History bound: whenever no handler is in the middle of a step, every
\* user's stored conversation history has at most MAX_HISTORY turns.
HistoryBound ==
  blocked = {} => \A u \in Users : Len(conversations[u]) <= MAX_HISTORY

\* C2 -- Generation failure does not corrupt history: a text flow whose
\* backend call failed has put exactly its trimmed USER turn into the history
\* and no MODEL turn; that turn is the user's most recent entry as long as no
\* other event has changed the user's history since; and the flow has sent
\* the fixed error notice as a new message, leaving the placeholder unedited.
FailureKeepsUserTurn ==
  \A f \in TextFlows :
    flow[f].backend = "failed" =>
      LET u == flow[f].user
          mine == [role |-> "user", parts |-> << Strip(flow[f].text) >>]
      IN
      /\ flow[f].appended = << mine >>
      /\ WroteLast(f, u) =>
           /\ conversations[u] # <<>>
           /\ conversations[u][Len(conversations[u])] = mine
      /\ flow[f].sent = << Reply(GENERATING_RESPONSE), Reply(ERROR_INFO) >>

\* C2 witness: a text flow has ended after its backend call failed, and its
\* USER turn is still the last event of the user's history.
FailureKeepsUserTurnWitness ==
  \E f \in TextFlows :
    /\ flow[f].backend = "failed"
    /\ flow[f].pc = "done"
    /\ flow[f].result = "FAILED"
    /\ WroteLast(f, flow[f].user)

\* C3 -- Text success path: a text flow whose backend call succeeded has put
\* its trimmed USER turn and then a MODEL turn with the trimmed generated
\* text into the history, and has edited its placeholder to the generated
\* text; as long as no other event has changed the user's history since, the
\* stored history ends with these two turns, and it is exactly these two when
\* the flow started from an empty history.
SuccessAppendsPair ==
  \A f \in TextFlows :
    flow[f].backend = "ok" =>
      LET u == flow[f].user
          h == conversations[u]
          userTurn == [role |-> "user", parts |-> << Strip(flow[f].text) >>]
          modelTurn == [role |-> "model", parts |-> << Strip(flow[f].response) >>]
      IN
      /\ flow[f].appended = << userTurn, modelTurn >>
      /\ flow[f].sent[1] = Reply(GENERATING_RESPONSE)
      /\ flow[f].sent[2] = Edit(flow[f].response)
      /\ WroteLast(f, u) =>
           /\ Len(h) >= 2
           /\ h[Len(h) - 1] = userTurn
           /\ h[Len(h)] = modelTurn
           /\ (\A i \in 1..Len(log[u]) : log[u][i].by = f) => h = << userTurn, modelTurn >>

\* C3 witness: a text flow that began with an empty history has been answered,
\* and the generated text needed trimming.
SuccessAppendsPairWitness ==
  \E f \in TextFlows :
    /\ flow[f].backend = "ok"
    /\ flow[f].result = "REPLIED"
    /\ Strip(flow[f].response) # flow[f].response
    /\ Len(log[flow[f].user]) = 2
    /\ WroteLast(f, flow[f].user)

\* C4 -- Sliding window: every user's stored history is a contiguous suffix,
\* in the original order, of the turns put into it since the user's last clear.
HistoryIsSuffixOfLog ==
  \A u \in Users : IsSuffix(conversations[u], Turns(log[u]))

\* C4 witness: truncation has dropped the oldest turn of a user and kept the
\* rest.
HistoryIsSuffixOfLogWitness ==
  \E u \in Users :
    /\ conversations[u] # <<>>
    /\ Len(conversations[u]) < Len(log[u])
    /\ log[u][1].turn # log[u][2].turn

\* C5 -- Offload: while the backend call of a flow is outstanding, no other
\* flow is kept from running; only the requesting flow is suspended.
BackendCallOffloaded ==
  \A f \in Flows :
    flow[f].backend = "pending" => \A g \in Flows \ {f} : LoopFree(g)

\* C6 -- Per-user serialization: while a text flow is between reading the
\* history and writing it back, no other event has touched that user's
\* history: the flow's own USER turn is still the latest change, and the
\* flow's truncated copy is still the window of the stored list.
HistoryStepsNotInterleaved ==
  \A f \in TextFlows :
    flow[f].pc = "t_generating" =>
      LET u == flow[f].user IN
      /\ WroteLast(f, u)
      /\ flow[f].history = LastN(conversations[u], MAX_HISTORY)
      /\ conversations[u][Len(conversations[u])] =
           [role |-> "user", parts |-> << Strip(flow[f].text) >>]

\* C6 witness: a text flow is inside its history steps while another text
\* flow or a clear of the same user is in flight.
HistoryStepsNotInterleavedWitness ==
  \E f \in TextFlows, g \in Flows :
    /\ g # f
    /\ flow[f].pc = "t_generating"
    /\ flow[g].user = flow[f].user
    /\ flow[g].kind \in {"text", "clear"}
    /\ flow[g].pc \notin {"idle", "done"}

\* C7 -- Per-user isolation: a step of a flow of user A changes neither the
\* history nor the model choice of any other user, and the request a text
\* flow builds is made of A's own history and A's own model choice.
StepLeavesOtherUsersAlone ==
  [][ \A f \in Flows :
        flow'[f] # flow[f] =>
          LET a == flow'[f].user IN
          /\ \A b \in Users \ {a} :
               /\ conversations'[b] = conversations[b]
               /\ default_model_dict'[b] = default_model_dict[b]
               /\ (b \in convKeys') = (b \in convKeys)
               /\ (b \in modelKeys') = (b \in modelKeys)
          /\ (flow[f].pc = "t_placeholder" /\ flow'[f].pc = "t_generating") =>
               flow'[f].request =
                 Request(default_model_dict[a],
                         LastN(Append(conversations[a], UserTurn(flow[f].text)), MAX_HISTORY),
                         flow[f].text, FALSE)
    ]_vars

\* C7 witness: both users have state of their own (one a history, the other
\* a switched model or a history) and two flows have run.
StepLeavesOtherUsersAloneWitness ==
  /\ conversations["u1"] # <<>>
  /\ \/ conversations["u2"] # <<>>
     \/ default_model_dict["u2"] = gemini_flash_model
  /\ \A f \in Flows : flow[f].pc # "idle"

\* C8 -- Error isolation: no error of the backend or of transport I/O escapes
\* a text flow or a photo flow.
NoErrorEscapes ==
  \A f \in Flows :
    flow[f].kind \in {"text", "photo"} => flow[f].result # "ESCAPED"

\* The private switch flows of user u started before flow f.
PrivateSwitchesBefore(f, u) ==
  {g \in 1..(f - 1) :
     flow[g].kind = "switch" /\ flow[g].chat = "private" /\ flow[g].user = u}

PrivateSwitches(u) == PrivateSwitchesBefore(MaxFlows + 1, u)

\* C9 -- Model toggle: a user's choice is pro (CAPABLE) until the user's first
\* private switch; the user's 1st, 3rd, ... private switch stores flash (FAST)
\* and confirms flash, the 2nd, 4th, ... stores pro and confirms pro; so after
\* an even number of private switches the choice is what it was before them.
SwitchIsInvolution ==
  /\ \A f \in Flows :
       (flow[f].kind = "switch" /\ flow[f].chat = "private") =>
         LET n == Cardinality(PrivateSwitchesBefore(f, flow[f].user)) IN
         IF n % 2 = 0
           THEN flow[f].model = "flash" /\ flow[f].sent = << Reply(NOW_FLASH) >>
           ELSE flow[f].model = "pro" /\ flow[f].sent = << Reply(NOW_PRO) >>
  /\ \A u \in Users :
       default_model_dict[u] =
         IF Cardinality(PrivateSwitches(u)) % 2 = 0 THEN "pro" ELSE "flash"

\* C9 witness: a user has switched twice in a private chat and is back on pro.
SwitchIsInvolutionWitness ==
  \E u \in Users :
    /\ Cardinality(PrivateSwitches(u)) = 2
    /\ default_model_dict[u] = "pro"
    /\ u \in modelKeys

\* C10 -- /switch outside a private chat: the handler sends the rejection
\* text and changes no user's model choice, no history and nothing else.
GroupSwitchChangesNothing ==
  [][ \A f \in Flows :
        (flow[f].pc = "idle" /\ flow'[f].kind = "switch" /\ flow'[f].chat # "private") =>
          /\ flow'[f].sent = << Reply(PRIVATE_ONLY) >>
          /\ default_model_dict' = default_model_dict
          /\ modelKeys' = modelKeys
          /\ conversations' = conversations
          /\ convKeys' = convKeys
          /\ \A g \in Flows \ {f} : flow'[g] = flow[g]
    ]_vars

\* C10 witness: a user who had switched to flash in a private chat has issued
\* /switch in a group chat, and the choice is still flash.
GroupSwitchChangesNothingWitness ==
  \E f, g \in Flows :
    /\ f < g
    /\ flow[f].kind = "switch" /\ flow[f].chat = "private"
    /\ flow[g].kind = "switch" /\ flow[g].chat = "group"
    /\ flow[g].user = flow[f].user
    /\ default_model_dict[flow[g].user] = "flash"

\* C11 -- Clear idempotence: a /clear leaves the sender's history empty
\* whatever it held before (also when the user had no entry at all), leaves
\* every other list alone, and a /clear of a user whose history is already
\* cleared changes nothing in the store.
ClearEmptiesAndIsIdempotent ==
  [][ \A f \in Flows :
        (flow[f].pc = "idle" /\ flow'[f].kind = "clear") =>
          LET u == flow'[f].user IN
          /\ conversations'[u] = <<>>
          /\ u \in convKeys'
          /\ flow'[f].sent = << Reply(HISTORY_CLEARED) >>
          /\ \A v \in Users \ {u} : conversations'[v] = conversations[v]
          /\ (conversations[u] = <<>> /\ u \in convKeys) =>
               (conversations' = conversations /\ convKeys' = convKeys)
    ]_vars

\* C11 witness: a user whose text message was answered has cleared the
\* history, and it is empty.
ClearEmptiesAndIsIdempotentWitness ==
  \E f, g \in Flows :
    /\ f < g
    /\ flow[f].kind = "text" /\ flow[f].backend = "ok"
    /\ Len(flow[f].appended) = 2
    /\ flow[g].kind = "clear" /\ flow[g].user = flow[f].user
    /\ conversations[flow[g].user] = <<>>

\* C12 -- Photo profile by context type only: a photo flow in a private chat
\* calls the pro (CAPABLE) model and one in a group chat the flash (FAST)
\* model, whatever model choice is stored for the sender.
PhotoProfileByChatType ==
  \A f \in Flows :
    flow[f].kind = "photo" =>
      LET expected == IF flow[f].chat = "private" THEN "pro" ELSE "flash" IN
      /\ flow[f].model = expected
      /\ flow[f].request # NoRequest => flow[f].request.model = expected

\* C12 witness: the backend is called with the pro model for a private-chat
\* photo of a user whose stored choice is flash.
PhotoProfileByChatTypeWitness ==
  \E f \in Flows :
    /\ flow[f].kind = "photo"
    /\ flow[f].chat = "private"
    /\ flow[f].backend = "pending"
    /\ flow[f].request.model = "pro"
    /\ default_model_dict[flow[f].user] = "flash"

\* C13 -- Photo flows and /start leave the session state alone: no step of a
\* photo flow or of /start changes a history, a model choice or the keys of
\* the two dictionaries; a history changes only in a step of a text flow or
\* of /clear, and a model choice only in a step of a private /switch.
OnlyTextClearSwitchMutate ==
  [][ \A f \in Flows :
        flow'[f] # flow[f] =>
          /\ flow'[f].kind \in {"photo", "start"} =>
               /\ conversations' = conversations
               /\ default_model_dict' = default_model_dict
               /\ convKeys' = convKeys
               /\ modelKeys' = modelKeys
          /\ conversations' # conversations => flow'[f].kind \in {"text", "clear"}
          /\ default_model_dict' # default_model_dict =>
               (flow'[f].kind = "switch" /\ flow'[f].chat = "private")
    ]_vars

\* C13 witness: a photo flow has been answered while a user's history is not
\* empty.
OnlyTextClearSwitchMutateWitness ==
  \E f \in Flows, u \in Users :
    /\ flow[f].kind = "photo"
    /\ flow[f].result = "REPLIED"
    /\ conversations[u] # <<>>

\* The value get_secret is to return for secret n: the environment's if set,
\* else the stripped content of the secret file, else nothing.
ExpectedSecret(n) ==
  IF boot.environ[n].some THEN boot.environ[n]
  ELSE IF boot.files[n].some THEN Some(Strip(boot.files[n].val))
  ELSE None

\* C14 -- Fail-fast configuration: polling starts only with both secrets
\* resolved, each from the environment if set there and else from the secret
\* file; when neither source has a secret, startup aborts at that secret with
\* an error naming it.
FailFastConfiguration ==
  LET key == "GEMINI_API_KEY"
      tok == "TELEGRAM_BOT_TOKEN"
  IN
  /\ boot.pc = "polling" =>
       /\ ExpectedSecret(key).some /\ boot.gemini_api_key = ExpectedSecret(key)
       /\ ExpectedSecret(tok).some /\ boot.token = ExpectedSecret(tok)
  /\ (boot.pc # "import" /\ ~ExpectedSecret(key).some) =>
       (boot.pc = "aborted" /\ boot.error = key)
  /\ (boot.pc \notin {"import", "loaded"} /\ ExpectedSecret(key).some
        /\ ~ExpectedSecret(tok).some) =>
       (boot.pc = "aborted" /\ boot.error = tok)
  /\ boot.pc = "aborted" => ~ExpectedSecret(boot.error).some

\* C14 witness: polling has started with the backend key taken from the
\* environment although a secret file exists too, and the token taken from
\* its secret file.
FailFastConfigurationWitness ==
  /\ boot.pc = "polling"
  /\ boot.environ["GEMINI_API_KEY"].some
  /\ boot.files["GEMINI_API_KEY"].some
  /\ ~boot.environ["TELEGRAM_BOT_TOKEN"].some
  /\ boot.token = Some(<<"f">>)

\* C15 (as claimed) -- TextFlow step order: whenever a text flow has sent its
\* placeholder, its USER turn is already in the sender's history.
UserTurnBeforePlaceholder ==
  \A f \in TextFlows :
    flow[f].sent # <<>> =>
      /\ flow[f].appended # <<>>
      /\ flow[f].appended[1] = [role |-> "user", parts |-> << Strip(flow[f].text) >>]

\* C15 (amended) -- the placeholder is sent first: while the placeholder send
\* is outstanding, and when it failed, the flow has put nothing into the
\* history; once the send has returned the USER turn is in the history, before
\* the backend is called.
PlaceholderBeforeUserTurn ==
  \A f \in TextFlows :
    LET mine == [role |-> "user", parts |-> << Strip(flow[f].text) >>]
        u == flow[f].user
    IN
    /\ flow[f].sent[1] = Reply(GENERATING_RESPONSE)
    /\ (flow[f].pc = "t_placeholder" \/ flow[f].backend = "none") =>
         /\ flow[f].appended = <<>>
         /\ \A i \in 1..Len(log[u]) : log[u][i].by # f
    /\ flow[f].backend # "none" =>
         /\ flow[f].appended # <<>>
         /\ flow[f].appended[1] = mine
    /\ flow[f].pc = "t_generating" =>
         conversations[u][Len(conversations[u])] = mine

\* C15 witness: a text flow whose placeholder send failed has ended with
\* nothing recorded, and another one is at its backend call with its USER
\* turn recorded.
PlaceholderBeforeUserTurnWitness ==
  \E f, g \in TextFlows :
    /\ flow[f].pc = "done" /\ flow[f].backend = "none" /\ flow[f].appended = <<>>
    /\ flow[g].pc = "t_generating" /\ Len(flow[g].appended) = 1

\* C16 -- Text request content: the conversation the backend receives for a
\* text message has at most MAX_HISTORY turns, ends with the new user turn,
\* and before it holds only turns of the user's earlier history.
RequestHoldsNewTurnOnce ==
  \A f \in TextFlows :
    flow[f].pc = "t_generating" =>
      LET d == Delivered(flow[f].request)
          stored == conversations[flow[f].user]
      IN
      /\ Len(d) <= MAX_HISTORY
      /\ d[Len(d)].role = "user"
      /\ Strip(d[Len(d)].parts[1]) = Strip(flow[f].text)
      /\ IsSuffix(SubSeq(d, 1, Len(d) - 1), SubSeq(stored, 1, Len(stored) - 1))

\* C17 -- Text profile follows the stored choice: when a text flow reads its
\* model, in a private or in a group chat, it gets pro if the sender has made
\* no or an even number of private /switch commands so far and flash
\* otherwise, and that model is the one the request is made with.
TextProfileIsStoredChoice ==
  [][ \A f \in Flows :
        (flow[f].pc = "t_placeholder" /\ flow'[f].pc = "t_generating") =>
          LET n == Cardinality(PrivateSwitches(flow[f].user))
              expected == IF n % 2 = 0 THEN "pro" ELSE "flash"
          IN
          /\ flow'[f].model = expected
          /\ flow'[f].request.model = expected
          /\ default_model_dict' = default_model_dict
    ]_vars

\* C17 witness: a text message in a group chat is at its backend call with
\* the flash model, after the sender's private /switch.
TextProfileIsStoredChoiceWitness ==
  \E f \in TextFlows :
    /\ flow[f].chat = "group"
    /\ flow[f].pc = "t_generating"
    /\ flow[f].request.model = "flash"
    /\ Cardinality(PrivateSwitches(flow[f].user)) = 1

\* The positions of sent calls of flow f that are the fixed error notice.
ErrorNotices(f) ==
  {i \in 1..Len(flow[f].sent) : flow[f].sent[i] = Reply(ERROR_INFO)}

\* C18 -- Flow termination: every text or photo flow that has ended has one of
\* the two outcomes: its message was edited to the generated text and no
\* error notice was sent (REPLIED), or the fixed error notice was sent (FAILED).
FlowEndsRepliedOrFailed ==
  \A f \in Flows :
    (flow[f].kind \in {"text", "photo"} /\ flow[f].pc = "done") =>
      \/ flow[f].result = "REPLIED" /\ ErrorNotices(f) = {}
      \/ ErrorNotices(f) # {}

\* C19 -- PhotoFlow ordering and failure outcome: the acknowledgment is the
\* first message of a photo flow; the backend is called only after the image
\* bytes were fetched and the acknowledgment was edited to the "generating"
\* notice; the acknowledgment is edited to the generated text only after a
\* successful call; after a failed call the error notice is sent as a new
\* reply and the acknowledgment is not edited again.
PhotoStepsInOrder ==
  \A f \in Flows :
    flow[f].kind = "photo" =>
      LET sent == flow[f].sent IN
      /\ sent[1] = Reply(IMAGE_RECEIVED)
      /\ flow[f].pc \in {"p_ack", "p_get_file", "p_download"} =>
           (flow[f].request = NoRequest /\ flow[f].backend = "none" /\ Len(sent) = 1)
      /\ flow[f].backend # "none" =>
           /\ flow[f].request.image
           /\ Len(sent) >= 2
           /\ sent[2] = Edit(GENERATING_RESPONSE)
      /\ \A i \in 1..Len(sent) :
           (sent[i].op = "edit" /\ sent[i].text # GENERATING_RESPONSE) =>
             (flow[f].backend = "ok" /\ i = 3 /\ sent[i].text = flow[f].response)
      /\ flow[f].backend = "failed" =>
           sent = << Reply(IMAGE_RECEIVED), Edit(GENERATING_RESPONSE), Reply(ERROR_INFO) >>

\* C19 witness: a photo flow whose backend call failed has ended with the
\* error notice delivered.
PhotoStepsInOrderWitness ==
  \E f \in Flows :
    /\ flow[f].kind = "photo"
    /\ flow[f].backend = "failed"
    /\ flow[f].result = "FAILED"

\* C20 -- History agrees with what the user saw: a text flow that has ended
\* with a MODEL turn of its own in the history ended REPLIED, and a text flow
\* that has sent the fixed error notice has put no MODEL turn into the history.
ModelTurnOnlyIfReplied ==
  \A f \in TextFlows :
    LET hasModelTurn == \E i \in 1..Len(flow[f].appended) : flow[f].appended[i].role = "model" IN
    /\ (flow[f].pc = "done" /\ hasModelTurn) => flow[f].result = "REPLIED"
    /\ ErrorNotices(f) # {} => ~hasModelTurn

====
